---- MODULE Spec2Model ----
(***************************************************************************)
(* Model of the process-lifecycle coordinator of package xcommon:          *)
(* the signal registry (_signals), the signal watcher and its dispatch     *)
(* loop, and the termination state (_termination).                         *)
(*                                                                         *)
(* Time is counted in units of 100 ms, the dispatcher's budget.            *)
(***************************************************************************)
EXTENDS Integers, Sequences, FiniteSets, TLC

VARIABLES
    _signals,       \* map os.Signal -> []*OSSignalHandler (a function on the bound signals)
    disposition,    \* os/signal: what the runtime does with each signal
    lastCall,       \* the most recent registry call: its name and whether its input matched
    wpc,            \* where the signalWatcher goroutine stands
    _signalChan,    \* the buffered channel the signals are delivered to
    chanClosed,     \* the watcher has closed _signalChan
    curSig,         \* dispatchSignals: the occurrence's signal
    sigHandlers,    \* dispatchSignals: the handler slice read under the lock
    idx,            \* dispatchSignals: the loop index (1-based)
    fastDeadline,   \* dispatchSignals: the deadline of fastCtx
    invoked,        \* the handler invocations of the current occurrence, in order
    arrived,        \* number of signals the operating system has raised
    now,            \* the clock
    _termination,   \* the termination state
    tpc,            \* where each goroutine stands in defaultSigTermHandler
    waitCtx,        \* defaultSigTermHandler: the deadline of each goroutine's waitCtx
    ctxDone,        \* the global context _ctx is cancelled
    exitStatus,     \* how the process has ended, if it has
    _defaultSigTermHandler, \* the configured termination strategy
    customCalls,    \* the calls a caller-supplied strategy has received
    rstResult,      \* what the last RequestSlowTermination call returned
    _finalizers,    \* the registered finalizers, in registration order
    fpc,            \* where the _runFinalizers goroutine stands
    fidx,           \* _runFinalizers: the loop index (1-based)
    finRan,         \* the finalizer invocations, in order
    cancelCalls     \* number of calls of _ctxCancel, counted up to MaxCancels

regVars == <<_signals, disposition, lastCall>>
watchVars == <<wpc, _signalChan, chanClosed, curSig, sigHandlers, idx, fastDeadline,
               invoked, arrived>>
termVars == <<_termination, tpc, waitCtx, ctxDone, exitStatus, _defaultSigTermHandler,
              customCalls, rstResult>>
finVars == <<_finalizers, fpc, fidx, finRan, cancelCalls>>
vars == <<regVars, watchVars, termVars, finVars, now>>

----------------------------------------------------------------------------
(* Bounds of the model *)

\* longest handler list a registry operation may leave behind
MaxLen == 3

\* number of signals the operating system raises
MaxOccur == 2

\* the clock runs unit by unit up to MaxTime, and beyond it from one pending
\* deadline to the next
MaxTime == 2

\* number of finalizers the application registers
MaxFinalizers == 2

\* the calls of the cancel function are counted up to this number
MaxCancels == 2

\* number of Terminate calls a caller-supplied strategy receives
MaxCustomCalls == 2

----------------------------------------------------------------------------
(* Program constants, in units of 100 ms *)

\* context.WithTimeout(ctx, 100*time.Millisecond)
FastTimeout == 1

gracefullShutdownTimeout == 15

prolongedShutdownTimeout == 100

\* make(chan os.Signal, 5)
SignalChanCap == 5

\* time.Time{}
ZeroTime == 0

----------------------------------------------------------------------------
(* Values *)

nil == "nil"

\* handler tokens (*OSSignalHandler): identity only
Handlers == {"h1", "h2", "h3"}

\* _defaultTermSignals
_defaultTermSignals == {"SIGINT", "SIGTERM"}

\* the signals the operating system can deliver
AllSignals == {"SIGINT", "SIGTERM", "SIGUSR1"}

\* the signals the application names in registry calls
BoundSignals == {"SIGINT", "SIGUSR1"}

\* variadic argument lists: no argument, one, or two
ArgLists(S) == {<<>>} \cup {<<a>> : a \in S} \cup {<<a, b>> : a \in S, b \in S}

\* the handlers the application names in registry calls
BoundHandlers == {"h1", "h2"}

HandlerArgs == BoundHandlers \cup {nil}
SignalArgs == BoundSignals \cup {nil}
HandlerLists == ArgLists(HandlerArgs)
SignalLists == ArgLists(SignalArgs)

\* finalizer functions (func()): identity only
Finalizers == {"f1", "f2"}

\* the goroutines that can run the termination strategy: the watcher (a
\* termination signal) and an application goroutine (Terminate)
Procs == {"watcher", "app"}

\* what a handler returns: nil, OSSignalStopPropagationError, another error
HandlerErrors == {"nil", "stop", "other"}

----------------------------------------------------------------------------
(* Go maps and slices *)

\* m[k] of a Go map: the zero value (a nil slice) when the key is absent
MapGet(m, k) == IF k \in DOMAIN m THEN m[k] ELSE <<>>

\* m[k] = v
MapSet(m, k, v) == [x \in DOMAIN m \cup {k} |-> IF x = k THEN v ELSE m[x]]

\* an entry emptied where it should be deleted
MapDeleteEmptying(m, k) == IF k \in DOMAIN m THEN MapSet(m, k, <<>>) ELSE m

\* delete(m, k)
MapDelete(m, k) == [x \in DOMAIN m \ {k} |-> m[x]]

\* the elements of a slice
Elems(s) == {s[i] : i \in 1..Len(s)}

----------------------------------------------------------------------------
(* os/signal, as far as the package uses it *)

isTerminationSignal(sig) == sig \in _defaultTermSignals

\* a bind that subscribes nothing
_carefullyNotifySignalNever(disp, sig) == disp

\* signal.Notify(_signalChan, sig), skipped for the termination signals
_carefullyNotifySignal(disp, sig) ==
    IF ~isTerminationSignal(sig) /\ sig \in AllSignals
    THEN [disp EXCEPT ![sig] = "notify"]
    ELSE disp

\* an unbind that leaves the subscription in place
_carefullyResetSignalNever(disp, sig) == disp

\* a reset that does not spare the termination signals
_carefullyResetSignalAlways(disp, sig) ==
    IF sig \in AllSignals THEN [disp EXCEPT ![sig] = "default"] ELSE disp

\* signal.Reset(sig), skipped for the termination signals; a nil signal has
\* no signal number and os/signal resets nothing for it
_carefullyResetSignal(disp, sig) ==
    IF ~isTerminationSignal(sig) /\ sig \in AllSignals
    THEN [disp EXCEPT ![sig] = "default"]
    ELSE disp

----------------------------------------------------------------------------
(* The registry operations *)

\* a loop that appends without looking for the handler
RECURSIVE BindLoopAlwaysAppends(_, _, _, _)
BindLoopAlwaysAppends(reg, disp, handler, signals) ==
    IF signals = <<>> THEN [reg |-> reg, disp |-> disp]
    ELSE LET sig == Head(signals)
         IN  IF sig = nil
             THEN BindLoopAlwaysAppends(reg, disp, handler, Tail(signals))
             ELSE BindLoopAlwaysAppends(
                      MapSet(reg, sig, Append(MapGet(reg, sig), handler)),
                      IF sig \notin DOMAIN reg
                      THEN _carefullyNotifySignal(disp, sig) ELSE disp,
                      handler, Tail(signals))

\* the loop body of BindHandlerToSignals over the remaining signals
RECURSIVE BindLoop(_, _, _, _)
BindLoop(reg, disp, handler, signals) ==
    IF signals = <<>> THEN [reg |-> reg, disp |-> disp]
    ELSE LET sig == Head(signals)
             handlerFound == handler \in Elems(MapGet(reg, sig))
         IN  IF sig = nil \/ handlerFound
             THEN BindLoop(reg, disp, handler, Tail(signals))
             ELSE BindLoop(MapSet(reg, sig, Append(MapGet(reg, sig), handler)),
                           IF sig \notin DOMAIN reg
                           THEN _carefullyNotifySignal(disp, sig) ELSE disp,
                           handler, Tail(signals))

\* the inner loop of _removeFromSignalsHandlers: one origin handler against
\* the remaining removed handlers; acc is [newHandlers, updated]
RECURSIVE RemoveInner(_, _, _)
RemoveInner(acc, originHandler, removed) ==
    IF removed = <<>> THEN acc
    ELSE LET removingHandler == Head(removed)
         IN  IF removingHandler = nil
             THEN RemoveInner(acc, originHandler, Tail(removed))
             ELSE IF removingHandler # originHandler
             THEN RemoveInner([acc EXCEPT !.newHandlers = Append(@, originHandler)],
                              originHandler, Tail(removed))
             ELSE RemoveInner([acc EXCEPT !.updated = TRUE],
                              originHandler, Tail(removed))

\* the outer loop of _removeFromSignalsHandlers
RECURSIVE RemoveOuter(_, _, _)
RemoveOuter(acc, origin, removed) ==
    IF origin = <<>> THEN acc
    ELSE RemoveOuter(RemoveInner(acc, Head(origin), removed), Tail(origin), removed)

\* a removal that returns the rebuilt slice whether or not it found a handler
_removeAlwaysRebuilt(origin, removed) ==
    RemoveOuter([newHandlers |-> <<>>, updated |-> FALSE], origin, removed).newHandlers

_removeFromSignalsHandlers(origin, removed) ==
    LET r == RemoveOuter([newHandlers |-> <<>>, updated |-> FALSE], origin, removed)
    IN  IF r.updated THEN r.newHandlers ELSE origin

\* no operation leaves a list longer than the model's bound
WithinBound(reg) == \A s \in DOMAIN reg : Len(reg[s]) <= MaxLen

\* a dispatch that reads the registry without the lock
RLockedNever == FALSE

\* dispatchSignals holds _signalsMutex.RLock from its start to its return
RLocked == wpc \in {"running", "lockwait"}

\* a registry call runs in a live process, takes _signalsMutex.Lock, and
\* touches nothing but the registry and the subscriptions
RegistryCall ==
    /\ exitStatus = "running"
    /\ ~RLocked
    /\ UNCHANGED <<watchVars, termVars, now, finVars>>

BindHandlerToSignals(handler, signals) ==
    /\ RegistryCall
    /\ lastCall' = [op |-> "BindHandlerToSignals",
                    hit |-> handler # nil /\ \E s \in Elems(signals) \ {nil} :
                                handler \notin Elems(MapGet(_signals, s))]
    /\ IF handler = nil \/ Len(signals) = 0
       THEN UNCHANGED <<_signals, disposition>>
       ELSE LET r == BindLoop(_signals, disposition, handler, signals)
            IN  /\ WithinBound(r.reg)
                /\ _signals' = r.reg
                /\ disposition' = r.disp

\* UnbindHandlers: the first loop rewrites every list, the second deletes the
\* signals whose list became empty
UnbindHandlers(handlers) ==
    /\ RegistryCall
    /\ lastCall' = [op |-> "UnbindHandlers",
                    hit |-> \E s \in DOMAIN _signals :
                                Elems(handlers) \cap Elems(_signals[s]) # {}]
    /\ IF Len(handlers) = 0
       THEN UNCHANGED <<_signals, disposition>>
       ELSE LET rewritten == [sig \in DOMAIN _signals |->
                                 _removeFromSignalsHandlers(_signals[sig], handlers)]
                signalsToDelete == {sig \in DOMAIN rewritten : Len(rewritten[sig]) = 0}
            IN  /\ WithinBound(rewritten)
                /\ _signals' = [sig \in DOMAIN rewritten \ signalsToDelete |-> rewritten[sig]]
                /\ disposition' = [sig \in AllSignals |->
                                      IF sig \in signalsToDelete
                                      THEN _carefullyResetSignal(disposition, sig)[sig]
                                      ELSE disposition[sig]]

\* the loop of UnbindHandlerFromSignals over the remaining signals
RECURSIVE UnbindLoop(_, _, _, _)
UnbindLoop(reg, disp, handler, signals) ==
    IF signals = <<>> THEN [reg |-> reg, disp |-> disp]
    ELSE LET sig == Head(signals)
         IN  IF sig = nil \/ sig \notin DOMAIN reg
             THEN UnbindLoop(reg, disp, handler, Tail(signals))
             ELSE LET updated == _removeFromSignalsHandlers(reg[sig], <<handler>>)
                  IN  IF Len(updated) = 0
                      THEN UnbindLoop(MapDelete(reg, sig), _carefullyResetSignal(disp, sig),
                                      handler, Tail(signals))
                      ELSE UnbindLoop(MapSet(reg, sig, updated), disp,
                                      handler, Tail(signals))

UnbindHandlerFromSignals(handler, signals) ==
    /\ RegistryCall
    /\ lastCall' = [op |-> "UnbindHandlerFromSignals",
                    hit |-> \E s \in Elems(signals) \cap DOMAIN _signals :
                                handler \in Elems(_signals[s])]
    /\ IF handler = nil \/ Len(signals) = 0
       THEN UNCHANGED <<_signals, disposition>>
       ELSE LET r == UnbindLoop(_signals, disposition, handler, signals)
            IN  /\ _signals' = r.reg
                /\ disposition' = r.disp

\* the loop of UnbindSignals over the remaining signals
RECURSIVE ClearLoop(_, _, _)
ClearLoop(reg, disp, signals) ==
    IF signals = <<>> THEN [reg |-> reg, disp |-> disp]
    ELSE ClearLoop(MapDelete(reg, Head(signals)),
                   _carefullyResetSignal(disp, Head(signals)), Tail(signals))

UnbindSignals(signals) ==
    /\ RegistryCall
    /\ lastCall' = [op |-> "UnbindSignals",
                    hit |-> Elems(signals) \cap DOMAIN _signals # {}]
    /\ IF Len(signals) = 0
       THEN UNCHANGED <<_signals, disposition>>
       ELSE LET r == ClearLoop(_signals, disposition, signals)
            IN  /\ _signals' = r.reg
                /\ disposition' = r.disp

\* UnbindAllSignals replaces the map and touches no subscription
UnbindAllSignals ==
    /\ RegistryCall
    /\ lastCall' = [op |-> "UnbindAllSignals", hit |-> DOMAIN _signals # {}]
    /\ _signals' = [sig \in {} |-> <<>>]
    /\ UNCHANGED disposition

----------------------------------------------------------------------------
(* The clock *)

\* the deadlines some goroutine is waiting for
PendingDeadlines ==
    {waitCtx[p] : p \in {q \in Procs : tpc[q] \in {"wait1", "wait2"}}}
    \cup (IF wpc = "running" THEN {fastDeadline} ELSE {})

\* the instants the clock can move to: the next unit while it runs freely,
\* and the nearest deadline still ahead
NextTimes ==
    LET ahead == {d \in PendingDeadlines : d > now}
    IN  (IF now < MaxTime THEN {now + 1} ELSE {})
        \cup {d \in ahead : \A e \in ahead : d <= e}

Tick ==
    /\ exitStatus = "running"
    /\ \E t \in NextTimes : now' = t
    /\ UNCHANGED <<regVars, watchVars, termVars, finVars>>

----------------------------------------------------------------------------
(* The termination strategy *)

\* a strategy that goes to the cancel without writing the termination state
TermStartWithoutState(p) ==
    /\ UNCHANGED _termination
    /\ waitCtx' = [waitCtx EXCEPT ![p] = now + gracefullShutdownTimeout]
    /\ tpc' = [tpc EXCEPT ![p] = "cancel"]

\* the locked block that opens defaultSigTermHandler
TermStart(p) ==
    /\ _termination' = [Started |-> TRUE, Prolonged |-> FALSE, StartedAt |-> now,
                        Deadline |-> now + gracefullShutdownTimeout]
    /\ waitCtx' = [waitCtx EXCEPT ![p] = now + gracefullShutdownTimeout]
    /\ tpc' = [tpc EXCEPT ![p] = "cancel"]

\* a trigger that starts the termination whatever strategy it calls
_terminateAlwaysStarts(p, sig) ==
    /\ TermStart(p)
    /\ customCalls' = IF _defaultSigTermHandler = "custom"
                      THEN Append(customCalls, sig) ELSE customCalls

\* _terminate: run the configured strategy, if any, in goroutine p
_terminate(p, sig) ==
    IF _defaultSigTermHandler = "default"
    THEN TermStart(p) /\ UNCHANGED customCalls
    ELSE IF _defaultSigTermHandler = "custom"
    THEN customCalls' = Append(customCalls, sig) /\ UNCHANGED <<_termination, waitCtx, tpc>>
    ELSE UNCHANGED <<_termination, waitCtx, tpc, customCalls>>

\* a cancel function that re-arms a context already done
_ctxCancelRearms(done) == ~done

\* the CancelFunc of context.WithCancel: the context is done after the call,
\* whatever it was before
_ctxCancel(done) == TRUE

\* one more call of the cancel function, counted up to MaxCancels
CountCancel(n) == IF n < MaxCancels THEN n + 1 ELSE n

\* defaultSigTermHandler: _ctxCancel()
TermCancel(p) ==
    /\ exitStatus = "running"
    /\ tpc[p] = "cancel"
    /\ ctxDone' = _ctxCancel(ctxDone)
    /\ cancelCalls' = CountCancel(cancelCalls)
    /\ tpc' = [tpc EXCEPT ![p] = "wait1"]
    /\ UNCHANGED <<regVars, watchVars, now, _termination, waitCtx, exitStatus,
                   _defaultSigTermHandler, customCalls, rstResult,
                   _finalizers, fpc, fidx, finRan>>

\* defaultSigTermHandler: the first wait is over; read Prolonged under the
\* lock and, if set, wait for the deadline as it stands now
TermRecheck(p) ==
    /\ exitStatus = "running"
    /\ tpc[p] = "wait1"
    /\ now >= waitCtx[p]
    /\ waitCtx' = [waitCtx EXCEPT ![p] =
                      IF _termination.Prolonged THEN _termination.Deadline ELSE @]
    /\ tpc' = [tpc EXCEPT ![p] = "wait2"]
    /\ UNCHANGED <<regVars, watchVars, now, _termination, ctxDone, exitStatus,
                   _defaultSigTermHandler, customCalls, rstResult, finVars>>

\* defaultSigTermHandler: the second wait is over; os.Exit(100)
TermExit(p) ==
    /\ exitStatus = "running"
    /\ tpc[p] = "wait2"
    /\ now >= waitCtx[p]
    /\ exitStatus' = "exit100"
    /\ UNCHANGED <<regVars, watchVars, now, _termination, tpc, waitCtx, ctxDone,
                   _defaultSigTermHandler, customCalls, rstResult, finVars>>

\* Terminate(ctx), called by an application goroutine
Terminate ==
    /\ exitStatus = "running"
    /\ tpc["app"] = "idle"
    /\ _defaultSigTermHandler = "custom" => Len(customCalls) < MaxCustomCalls
    /\ _terminate("app", nil)
    /\ UNCHANGED <<regVars, watchVars, now, ctxDone, exitStatus,
                   _defaultSigTermHandler, rstResult, finVars>>

\* the checks made in another order: the state before the reason
SlowTerminationErrorStateFirst(reason, term) ==
    IF ~term.Started THEN "SlowShutdownWithoutTermination"
    ELSE IF term.Prolonged THEN "SlowShutdownRequestedAlready"
    ELSE IF reason = "" THEN "SlowShutdownNeedAReason"
    ELSE "nil"

\* RequestSlowTermination: the error it returns, "nil" for none
SlowTerminationError(reason, term) ==
    IF reason = "" THEN "SlowShutdownNeedAReason"
    ELSE IF ~term.Started THEN "SlowShutdownWithoutTermination"
    ELSE IF term.Prolonged THEN "SlowShutdownRequestedAlready"
    ELSE "nil"

\* a prolongation counted from now instead of from the deadline
ProlongedFromNow(term) ==
    [term EXCEPT !.Prolonged = TRUE, !.Deadline = now + prolongedShutdownTimeout]

\* RequestSlowTermination: the termination state after a granted request
Prolonged(term) ==
    [term EXCEPT !.Prolonged = TRUE, !.Deadline = @ + prolongedShutdownTimeout]

\* a request that prolongs before it has looked at the termination state
TerminationAfterRequestUnchecked(reason, term) ==
    IF reason = "" THEN term ELSE Prolonged(term)

\* RequestSlowTermination: the termination state it leaves, granted or not
TerminationAfterRequest(reason, term) ==
    IF SlowTerminationError(reason, term) = "nil" THEN Prolonged(term) ELSE term

RequestSlowTermination(reason) ==
    /\ exitStatus = "running"
    /\ rstResult' = SlowTerminationError(reason, _termination)
    /\ _termination' = TerminationAfterRequest(reason, _termination)
    /\ UNCHANGED <<regVars, watchVars, now, tpc, waitCtx, ctxDone, exitStatus,
                   _defaultSigTermHandler, customCalls, finVars>>

\* a read that returns the start of the termination
GetTerminationDeadlineStartedAt ==
    IF ~_termination.Started THEN ZeroTime ELSE _termination.StartedAt

GetTerminationDeadline ==
    IF ~_termination.Started THEN ZeroTime ELSE _termination.Deadline

EnableDefaultSigTermHandler ==
    /\ exitStatus = "running"
    /\ _defaultSigTermHandler' = "default"
    /\ UNCHANGED <<regVars, watchVars, now, _termination, tpc, waitCtx, ctxDone,
                   exitStatus, customCalls, rstResult, finVars>>

SetSigTermHandler ==
    /\ exitStatus = "running"
    /\ _defaultSigTermHandler' = "custom"
    /\ UNCHANGED <<regVars, watchVars, now, _termination, tpc, waitCtx, ctxDone,
                   exitStatus, customCalls, rstResult, finVars>>

\* a call that also abandons the termination under way
DisableSigTermHandlerAborting ==
    /\ exitStatus = "running"
    /\ _defaultSigTermHandler' = "nil"
    /\ tpc' = [p \in Procs |-> "idle"]
    /\ UNCHANGED <<regVars, watchVars, now, _termination, waitCtx, ctxDone,
                   exitStatus, customCalls, rstResult, finVars>>

DisableSigTermHandler ==
    /\ exitStatus = "running"
    /\ _defaultSigTermHandler' = "nil"
    /\ UNCHANGED <<regVars, watchVars, now, _termination, tpc, waitCtx, ctxDone,
                   exitStatus, customCalls, rstResult, finVars>>

\* a goroutine is about to call _terminate: Terminate may be called, or the
\* watcher has dispatched a termination signal
AtTerminate ==
    \/ tpc["app"] = "idle"
    \/ wpc = "checkterm" /\ isTerminationSignal(curSig)

\* DisableSigTermHandler writes _defaultSigTermHandler without a lock while
\* _terminate reads it twice, for the nil test and for the call: a write
\* between the two reads makes the call a call of a nil function
DisableSigTermHandlerRacing ==
    /\ exitStatus = "running"
    /\ _defaultSigTermHandler # "nil"
    /\ AtTerminate
    /\ _defaultSigTermHandler' = "nil"
    /\ exitStatus' = "panic"
    /\ UNCHANGED <<regVars, watchVars, now, _termination, tpc, waitCtx, ctxDone,
                   customCalls, rstResult, finVars>>

----------------------------------------------------------------------------
(* The signal watcher *)

\* SetupSignalWatcher: subscribe the termination signals, start the watcher
SetupSignalWatcher ==
    /\ exitStatus = "running"
    /\ wpc = "off"
    /\ disposition' = [sig \in AllSignals |->
                          IF sig \in _defaultTermSignals THEN "notify" ELSE disposition[sig]]
    /\ wpc' = "select"
    /\ UNCHANGED <<_signals, lastCall, _signalChan, chanClosed, curSig, sigHandlers, idx,
                   fastDeadline, invoked, arrived, termVars, now, finVars>>

\* the operating system raises sig: os/signal sends it to the channel without
\* blocking (a full channel drops it, a send on a closed channel panics); an
\* ignored signal is dropped; a signal left at its default disposition ends
\* the process
SignalArrives(sig) ==
    /\ exitStatus = "running"
    /\ arrived < MaxOccur
    /\ arrived' = arrived + 1
    /\ _signalChan' = IF /\ disposition[sig] = "notify"
                         /\ ~chanClosed
                         /\ Len(_signalChan) < SignalChanCap
                      THEN Append(_signalChan, sig) ELSE _signalChan
    /\ exitStatus' = IF disposition[sig] = "default" THEN "killed"
                     ELSE IF disposition[sig] = "notify" /\ chanClosed THEN "panic"
                     ELSE exitStatus
    /\ UNCHANGED <<regVars, wpc, chanClosed, curSig, sigHandlers, idx, fastDeadline,
                   invoked, now, _termination, tpc, waitCtx, ctxDone,
                   _defaultSigTermHandler, customCalls, rstResult, finVars>>

\* a fastCtx that is not derived from the context of the process
FastCtxDoneByDeadlineOnly == now >= fastDeadline

\* fastCtx.Done() is closed: its deadline has passed, or its parent is cancelled
FastCtxDone == now >= fastDeadline \/ ctxDone

\* one invocation: the handler, what it returned and when (err is "running"
\* until it returns; timeIsUp is what the loop read from fastCtx after the return)
Invocation(h) == [handler |-> h, err |-> "running", timeIsUp |-> FALSE,
                  returnedAt |-> ZeroTime]

\* a loop that starts at the first registered handler
FirstIndexFromStart(handlers) == 1

\* for idx := len(sigHandlers) - 1 (slices are 1-based here)
FirstIndex(handlers) == Len(handlers)

\* a watcher that takes the next signal while a dispatch is under way
AtSelectOrDispatching(pc) == pc \in {"select", "running"}

\* the watcher goroutine is at its select: dispatchSignals and
\* checkTermSignals are plain calls, and the loop comes back after them
AtSelect(pc) == pc = "select"

\* signalWatcher: receive a signal and enter dispatchSignals: derive fastCtx,
\* take the read lock, read the handler slice and invoke its last handler
WatcherReceive ==
    /\ exitStatus = "running"
    /\ AtSelect(wpc)
    /\ tpc["watcher"] = "idle"
    /\ Len(_signalChan) > 0
    /\ LET sig == Head(_signalChan)
           handlers == MapGet(_signals, sig)
       IN  /\ curSig' = sig
           /\ sigHandlers' = handlers
           /\ idx' = FirstIndex(handlers)
           /\ IF Len(handlers) = 0
              THEN invoked' = <<>> /\ wpc' = "checkterm"
              ELSE /\ invoked' = <<Invocation(handlers[FirstIndex(handlers)])>>
                   /\ wpc' = "running"
    /\ _signalChan' = Tail(_signalChan)
    /\ fastDeadline' = now + FastTimeout
    /\ UNCHANGED <<regVars, chanClosed, arrived, termVars, now, finVars>>

\* a loop that does not look at the returned error
LoopContinuesIgnoringStop(err, timeIsUp, i) == ~timeIsUp /\ i > 1

\* a loop that does not look at fastCtx
LoopContinuesIgnoringDeadline(err, timeIsUp, i) == err # "stop" /\ i > 1

\* a loop that ends at the first error of any kind
LoopContinuesOnlyOnNil(err, timeIsUp, i) == err = "nil" /\ ~timeIsUp /\ i > 1

\* whether the loop of dispatchSignals goes on after a handler returned err:
\* not after stop-propagation, not once fastCtx is done, not past index 0
LoopContinues(err, timeIsUp, i) == err # "stop" /\ ~timeIsUp /\ i > 1

\* a handler that is cut off when the deadline of fastCtx passes
HandlerRunsUntilDeadline == wpc = "running" /\ now < fastDeadline

\* sigHandler(ctx, fastCtx, signal) is a plain call: the handler runs until
\* it returns, whatever fastCtx says
HandlerRuns == wpc = "running"

\* the running handler returns err; the loop breaks or invokes the handler
\* registered before it
HandlerReturn(err) ==
    /\ exitStatus = "running"
    /\ HandlerRuns
    /\ LET timeIsUp == err # "stop" /\ FastCtxDone
           returned == [invoked EXCEPT ![Len(invoked)] =
                           [@ EXCEPT !.err = err, !.timeIsUp = timeIsUp,
                                     !.returnedAt = now]]
       IN  IF LoopContinues(err, timeIsUp, idx)
           THEN /\ idx' = idx - 1
                /\ invoked' = Append(returned, Invocation(sigHandlers[idx - 1]))
                /\ wpc' = "running"
           ELSE /\ idx' = idx
                /\ invoked' = returned
                /\ wpc' = "checkterm"
    /\ UNCHANGED <<regVars, _signalChan, chanClosed, curSig, sigHandlers, fastDeadline,
                   arrived, termVars, now, finVars>>

\* the running handler calls a function of the registry (BindHandlerToSignals,
\* an Unbind function): the call asks for _signalsMutex.Lock on the goroutine
\* whose dispatchSignals holds the RLock. Lock returns when no reader holds
\* the lock, and the reader here is the caller: no step leaves "lockwait"
HandlerCallsRegistry ==
    /\ exitStatus = "running"
    /\ HandlerRuns
    /\ wpc' = "lockwait"
    /\ UNCHANGED <<regVars, _signalChan, chanClosed, curSig, sigHandlers, idx,
                   fastDeadline, invoked, arrived, termVars, now, finVars>>

\* a watcher that checks the signal while its handlers still run
AfterOrDuringDispatch(pc) == pc \in {"running", "checkterm"}

\* signalWatcher: dispatchSignals(ctx, sig) has returned
AfterDispatch(pc) == pc = "checkterm"

\* a check that leaves the termination out when a handler stopped the
\* propagation
checkTermSignalsUnlessStopped(sig) ==
    /\ isTerminationSignal(sig)
    /\ \A i \in 1..Len(invoked) : invoked[i].err # "stop"

\* checkTermSignals: whether sig is one of _defaultTermSignals, in which case
\* it has called _terminate
checkTermSignals(sig) == isTerminationSignal(sig)

\* signalWatcher after dispatchSignals: checkTermSignals, and signal.Ignore()
\* once it has returned true
CheckTermSignals ==
    /\ exitStatus = "running"
    /\ AfterDispatch(wpc)
    /\ IF checkTermSignals(curSig)
       THEN /\ _terminate("watcher", curSig)
            /\ IF _defaultSigTermHandler = "default"
               THEN wpc' = "terminating" /\ UNCHANGED disposition
               ELSE /\ wpc' = "select"
                    /\ disposition' = [sig \in AllSignals |-> "ignore"]
       ELSE /\ wpc' = "select"
            /\ UNCHANGED <<disposition, _termination, waitCtx, tpc, customCalls>>
    /\ UNCHANGED <<_signals, lastCall, _signalChan, chanClosed, curSig, sigHandlers, idx,
                   fastDeadline, invoked, arrived, now, ctxDone, exitStatus,
                   _defaultSigTermHandler, rstResult, finVars>>

\* signalWatcher: ctx.Done() is selected; the deferred signal.Stop and close
WatcherStop ==
    /\ exitStatus = "running"
    /\ wpc = "select"
    /\ tpc["watcher"] = "idle"
    /\ ctxDone
    /\ wpc' = "stopped"
    /\ disposition' = [sig \in AllSignals |->
                          IF disposition[sig] = "notify" THEN "default" ELSE disposition[sig]]
    /\ chanClosed' = TRUE
    /\ UNCHANGED <<_signals, lastCall, _signalChan, curSig, sigHandlers, idx, fastDeadline,
                   invoked, arrived, termVars, now, finVars>>

----------------------------------------------------------------------------
(* The global context and the finalizers *)

\* contextStoper, the cancel function GetGlobalContext returns
contextStoper ==
    /\ exitStatus = "running"
    /\ ctxDone' = _ctxCancel(ctxDone)
    /\ cancelCalls' = CountCancel(cancelCalls)
    /\ UNCHANGED <<regVars, watchVars, now, _termination, tpc, waitCtx, exitStatus,
                   _defaultSigTermHandler, customCalls, rstResult,
                   _finalizers, fpc, fidx, finRan>>

\* RegisterFinalizer: append under _finalizersMu
RegisterFinalizer(fn) ==
    /\ exitStatus = "running"
    /\ Len(_finalizers) < MaxFinalizers
    /\ _finalizers' = Append(_finalizers, fn)
    /\ UNCHANGED <<regVars, watchVars, termVars, now, fpc, fidx, finRan, cancelCalls>>

\* RegisterFinalizer while _runFinalizers reads the slice: the read takes no
\* lock, and besides the two orders of the append and the read it can see the
\* new length with the element not yet there, a nil func() whose call panics
RegisterFinalizerRacing(fn) ==
    /\ exitStatus = "running"
    /\ Len(_finalizers) < MaxFinalizers
    /\ fpc = "waiting"
    /\ ctxDone
    /\ _finalizers' = Append(_finalizers, fn)
    /\ exitStatus' = "panic"
    /\ UNCHANGED <<regVars, watchVars, now, _termination, tpc, waitCtx, ctxDone,
                   _defaultSigTermHandler, customCalls, rstResult,
                   fpc, fidx, finRan, cancelCalls>>

\* a drain that does not wait for the context
DrainMayStartAtOnce == TRUE

\* _runFinalizers: case <-_ctx.Done()
DrainMayStart == ctxDone

\* one invocation of a finalizer: its index, the function, whether it returned
FinalizerCall(i, fn) == [idx |-> i, fn |-> fn, returned |-> FALSE]

\* a loop that starts at the first registered finalizer
FirstFinalizerFromStart(finalizers) == 1

\* for idx := len(_finalizers) - 1 (slices are 1-based here)
FirstFinalizer(finalizers) == Len(finalizers)

\* _runFinalizers leaves the select: it reads len(_finalizers), with no lock,
\* and calls the last finalizer, or returns when there is none
FinalizersStart ==
    /\ exitStatus = "running"
    /\ fpc = "waiting"
    /\ DrainMayStart
    /\ fidx' = FirstFinalizer(_finalizers)
    /\ IF Len(_finalizers) = 0
       THEN fpc' = "done" /\ UNCHANGED finRan
       ELSE /\ fpc' = "running"
            /\ finRan' = <<FinalizerCall(FirstFinalizer(_finalizers),
                                         _finalizers[FirstFinalizer(_finalizers)])>>
    /\ UNCHANGED <<regVars, watchVars, termVars, now, _finalizers, cancelCalls>>

\* the running finalizer returns; the loop calls _finalizers[idx] for the
\* index before it, read from the slice as it is now, or ends past index 0
FinalizerReturn ==
    /\ exitStatus = "running"
    /\ fpc = "running"
    /\ LET returned == [finRan EXCEPT ![Len(finRan)].returned = TRUE]
       IN  IF fidx > 1
           THEN /\ fidx' = fidx - 1
                /\ finRan' = Append(returned, FinalizerCall(fidx - 1, _finalizers[fidx - 1]))
                /\ fpc' = "running"
           ELSE /\ fidx' = fidx
                /\ finRan' = returned
                /\ fpc' = "done"
    /\ UNCHANGED <<regVars, watchVars, termVars, now, _finalizers, cancelCalls>>

----------------------------------------------------------------------------
(* Specifications *)

Init ==
    /\ _signals = [sig \in {} |-> <<>>]
    /\ disposition = [sig \in AllSignals |-> "default"]
    /\ lastCall = [op |-> "none", hit |-> FALSE]
    /\ wpc = "off"
    /\ _signalChan = <<>>
    /\ chanClosed = FALSE
    /\ curSig = nil
    /\ sigHandlers = <<>>
    /\ idx = 0
    /\ fastDeadline = ZeroTime
    /\ invoked = <<>>
    /\ arrived = 0
    /\ now = 1
    /\ _termination = [Started |-> FALSE, Prolonged |-> FALSE, StartedAt |-> ZeroTime,
                       Deadline |-> ZeroTime]
    /\ tpc = [p \in Procs |-> "idle"]
    /\ waitCtx = [p \in Procs |-> ZeroTime]
    /\ ctxDone = FALSE
    /\ exitStatus = "running"
    /\ _defaultSigTermHandler = "default"
    /\ customCalls = <<>>
    /\ rstResult = "none"
    /\ _finalizers = <<>>
    /\ fpc = "waiting"
    /\ fidx = 0
    /\ finRan = <<>>
    /\ cancelCalls = 0

RegistryNext ==
    \/ \E h \in HandlerArgs, sigs \in SignalLists : BindHandlerToSignals(h, sigs)
    \/ \E hs \in HandlerLists : UnbindHandlers(hs)
    \/ \E h \in HandlerArgs, sigs \in SignalLists : UnbindHandlerFromSignals(h, sigs)
    \/ \E sigs \in SignalLists : UnbindSignals(sigs)
    \/ UnbindAllSignals

WatcherNext ==
    \/ \E sig \in AllSignals : SignalArrives(sig)
    \/ WatcherReceive
    \/ \E err \in HandlerErrors : HandlerReturn(err)
    \/ CheckTermSignals
    \/ WatcherStop
    \/ HandlerCallsRegistry

TermNext ==
    \/ \E p \in Procs : TermCancel(p)
    \/ \E p \in Procs : TermRecheck(p)
    \/ \E p \in Procs : TermExit(p)
    \/ Terminate
    \/ \E reason \in {"", "draining"} : RequestSlowTermination(reason)

ConfigNext ==
    \/ EnableDefaultSigTermHandler
    \/ SetSigTermHandler
    \/ DisableSigTermHandler
    \/ DisableSigTermHandlerRacing

FinalizerNext ==
    \/ \E fn \in Finalizers : RegisterFinalizer(fn)
    \/ \E fn \in Finalizers : RegisterFinalizerRacing(fn)
    \/ contextStoper
    \/ FinalizersStart
    \/ FinalizerReturn

Next ==
    \/ SetupSignalWatcher
    \/ FinalizerNext
    \/ RegistryNext
    \/ WatcherNext
    \/ TermNext
    \/ ConfigNext
    \/ Tick

Spec == Init /\ [][Next]_vars

\* the global context, its cancel function and the finalizers, with
\* Terminate as the way into the default strategy
ContextNext ==
    \/ \E fn \in Finalizers : RegisterFinalizer(fn)
    \/ \E fn \in Finalizers : RegisterFinalizerRacing(fn)
    \/ contextStoper
    \/ FinalizersStart
    \/ FinalizerReturn
    \/ Terminate
    \/ \E p \in Procs : TermCancel(p)
    \/ \E p \in Procs : TermRecheck(p)
    \/ \E p \in Procs : TermExit(p)
    \/ Tick

SpecContext == Init /\ [][ContextNext]_vars

\* the goroutine of _runFinalizers is scheduled, and a finalizer returns
SpecContextFair ==
    SpecContext /\ WF_vars(FinalizersStart) /\ WF_vars(FinalizerReturn)

\* the registry and its subscriptions, before and after the watcher is set up
SpecRegistry == Init /\ [][SetupSignalWatcher \/ RegistryNext]_vars

\* the handler lists BindHandlerToSignals builds: no handler twice
DispatchLists ==
    {l \in UNION {[1..n -> Handlers] : n \in 1..Cardinality(Handlers)} :
        \A i, j \in 1..Len(l) : i # j => l[i] # l[j]}

\* the watcher is set up and one handler list is bound to some of the signals
InitDispatch ==
    /\ \E l \in DispatchLists, D \in SUBSET BoundSignals :
          /\ _signals = [sig \in D |-> l]
          /\ disposition = [sig \in AllSignals |->
                               IF sig \in _defaultTermSignals \cup D
                               THEN "notify" ELSE "default"]
    /\ lastCall = [op |-> "BindHandlerToSignals", hit |-> TRUE]
    /\ wpc = "select"
    /\ _signalChan = <<>>
    /\ chanClosed = FALSE
    /\ curSig = nil
    /\ sigHandlers = <<>>
    /\ idx = 0
    /\ fastDeadline = ZeroTime
    /\ invoked = <<>>
    /\ arrived = 0
    /\ now = 1
    /\ _termination = [Started |-> FALSE, Prolonged |-> FALSE, StartedAt |-> ZeroTime,
                       Deadline |-> ZeroTime]
    /\ tpc = [p \in Procs |-> "idle"]
    /\ waitCtx = [p \in Procs |-> ZeroTime]
    /\ ctxDone = FALSE
    /\ exitStatus = "running"
    /\ _defaultSigTermHandler = "default"
    /\ customCalls = <<>>
    /\ rstResult = "none"
    /\ _finalizers = <<>>
    /\ fpc = "waiting"
    /\ fidx = 0
    /\ finRan = <<>>
    /\ cancelCalls = 0

\* signal occurrences dispatched to a registry that stays as it is
DispatchNext ==
    \/ \E sig \in AllSignals : SignalArrives(sig)
    \/ WatcherReceive
    \/ \E err \in HandlerErrors : HandlerReturn(err)
    \/ CheckTermSignals
    \/ \E p \in Procs : TermCancel(p)
    \/ \E p \in Procs : TermRecheck(p)
    \/ \E p \in Procs : TermExit(p)
    \/ Tick

SpecDispatch == InitDispatch /\ [][DispatchNext]_vars

\* occurrences dispatched while the application may cancel the context with
\* the cancel function of GetGlobalContext
SpecCancelled == InitDispatch /\ [][DispatchNext \/ contextStoper \/ WatcherStop]_vars

\* occurrences dispatched to handlers that may call the registry
SpecReentrant == InitDispatch /\ [][DispatchNext \/ HandlerCallsRegistry]_vars

\* termination by signal or by Terminate, with no handler registered
TerminationNext ==
    \/ SetupSignalWatcher
    \/ \E sig \in AllSignals : SignalArrives(sig)
    \/ WatcherReceive
    \/ CheckTermSignals
    \/ WatcherStop
    \/ TermNext
    \/ Tick

SpecTermination == Init /\ [][TerminationNext]_vars

\* the state AppRun hands to the application: the watcher is set up, nothing
\* is bound
InitWatching ==
    /\ _signals = [sig \in {} |-> <<>>]
    /\ disposition = [sig \in AllSignals |->
                         IF sig \in _defaultTermSignals THEN "notify" ELSE "default"]
    /\ lastCall = [op |-> "none", hit |-> FALSE]
    /\ wpc = "select"
    /\ _signalChan = <<>>
    /\ chanClosed = FALSE
    /\ curSig = nil
    /\ sigHandlers = <<>>
    /\ idx = 0
    /\ fastDeadline = ZeroTime
    /\ invoked = <<>>
    /\ arrived = 0
    /\ now = 1
    /\ _termination = [Started |-> FALSE, Prolonged |-> FALSE, StartedAt |-> ZeroTime,
                       Deadline |-> ZeroTime]
    /\ tpc = [p \in Procs |-> "idle"]
    /\ waitCtx = [p \in Procs |-> ZeroTime]
    /\ ctxDone = FALSE
    /\ exitStatus = "running"
    /\ _defaultSigTermHandler = "default"
    /\ customCalls = <<>>
    /\ rstResult = "none"
    /\ _finalizers = <<>>
    /\ fpc = "waiting"
    /\ fidx = 0
    /\ finRan = <<>>
    /\ cancelCalls = 0

\* a coordinated termination: the only signals raised are the termination
\* signals, the only calls Terminate and RequestSlowTermination
CoordinatedNext ==
    \/ \E sig \in _defaultTermSignals : SignalArrives(sig)
    \/ WatcherReceive
    \/ CheckTermSignals
    \/ WatcherStop
    \/ TermNext
    \/ Tick

\* the watcher is set up and one handler is bound to some of the signals
InitStrategy ==
    /\ \E D \in SUBSET BoundSignals :
          /\ _signals = [sig \in D |-> <<"h1">>]
          /\ disposition = [sig \in AllSignals |->
                               IF sig \in _defaultTermSignals \cup D
                               THEN "notify" ELSE "default"]
    /\ lastCall = [op |-> "BindHandlerToSignals", hit |-> TRUE]
    /\ wpc = "select"
    /\ _signalChan = <<>>
    /\ chanClosed = FALSE
    /\ curSig = nil
    /\ sigHandlers = <<>>
    /\ idx = 0
    /\ fastDeadline = ZeroTime
    /\ invoked = <<>>
    /\ arrived = 0
    /\ now = 1
    /\ _termination = [Started |-> FALSE, Prolonged |-> FALSE, StartedAt |-> ZeroTime,
                       Deadline |-> ZeroTime]
    /\ tpc = [p \in Procs |-> "idle"]
    /\ waitCtx = [p \in Procs |-> ZeroTime]
    /\ ctxDone = FALSE
    /\ exitStatus = "running"
    /\ _defaultSigTermHandler = "default"
    /\ customCalls = <<>>
    /\ rstResult = "none"
    /\ _finalizers = <<>>
    /\ fpc = "waiting"
    /\ fidx = 0
    /\ finRan = <<>>
    /\ cancelCalls = 0

\* signals and Terminate under a strategy that is reconfigured at any time
StrategyNext ==
    \/ \E sig \in BoundSignals : SignalArrives(sig)
    \/ WatcherReceive
    \/ HandlerReturn("nil")
    \/ CheckTermSignals
    \/ WatcherStop
    \/ \E p \in Procs : TermCancel(p)
    \/ \E p \in Procs : TermRecheck(p)
    \/ \E p \in Procs : TermExit(p)
    \/ Terminate
    \/ ConfigNext
    \/ Tick

SpecStrategy == InitStrategy /\ [][StrategyNext]_vars

\* the one signal of BoundSignals that is not a termination signal
UserSignal == CHOOSE sig \in BoundSignals : ~isTerminationSignal(sig)

\* handlers of the user signal come and go while the watcher dispatches its
\* occurrences
UserSignalNext ==
    \/ \E h \in BoundHandlers : BindHandlerToSignals(h, <<UserSignal>>)
    \/ \E h \in BoundHandlers : UnbindHandlerFromSignals(h, <<UserSignal>>)
    \/ \E h \in BoundHandlers : UnbindHandlers(<<h>>)
    \/ UnbindSignals(<<UserSignal>>)
    \/ UnbindAllSignals
    \/ SignalArrives(UserSignal)
    \/ WatcherReceive
    \/ \E err \in HandlerErrors : HandlerReturn(err)
    \/ CheckTermSignals
    \/ Tick

SpecUserSignal == InitWatching /\ [][UserSignalNext]_vars

\* handlers of the user signal are bound and unbound before and after the
\* context is cancelled and the watcher has stopped
StoppedNext ==
    \/ \E h \in BoundHandlers : BindHandlerToSignals(h, <<UserSignal>>)
    \/ \E h \in BoundHandlers : UnbindHandlerFromSignals(h, <<UserSignal>>)
    \/ SignalArrives(UserSignal)
    \/ WatcherReceive
    \/ HandlerReturn("nil")
    \/ CheckTermSignals
    \/ contextStoper
    \/ WatcherStop
    \/ Tick

SpecStopped == InitWatching /\ [][StoppedNext]_vars

SpecCoordinated == InitWatching /\ [][CoordinatedNext]_vars

\* every goroutine of the strategy is scheduled, and time passes
SpecCoordinatedFair ==
    /\ SpecCoordinated
    /\ WF_vars(Tick)
    /\ \A p \in Procs :
          WF_vars(TermCancel(p)) /\ WF_vars(TermRecheck(p)) /\ WF_vars(TermExit(p))

----------------------------------------------------------------------------
(* Dispatch of one occurrence *)

\* the handlers invoked for the current occurrence, in invocation order
InvokedHandlers == [i \in 1..Len(invoked) |-> invoked[i].handler]

Reverse(s) == [i \in 1..Len(s) |-> s[Len(s) + 1 - i]]

\* the dispatch of the occurrence of curSig has returned
DispatchReturned == curSig # nil /\ wpc # "running"

\* no invocation of the occurrence returned stop-propagation or found the
\* deadline elapsed
NoBreak ==
    \A i \in 1..Len(invoked) : invoked[i].err \in {"nil", "other"} /\ ~invoked[i].timeIsUp

\* C1: an occurrence whose handlers neither stop the propagation nor outlast
\* the deadline invokes every handler of its signal, last registered first:
\* h1, h2, h3 registered in that order are invoked as h3, h2, h1.
C1_ReverseRegistrationOrder ==
    /\ \A i \in 1..Len(invoked) :
          i <= Len(sigHandlers) /\ invoked[i].handler = sigHandlers[Len(sigHandlers) + 1 - i]
    /\ DispatchReturned /\ NoBreak => InvokedHandlers = Reverse(sigHandlers)
    /\ DispatchReturned /\ NoBreak /\ sigHandlers = <<"h1", "h2", "h3">>
          => InvokedHandlers = <<"h3", "h2", "h1">>

C1_Witness ==
    /\ DispatchReturned /\ NoBreak
    /\ sigHandlers = <<"h1", "h2", "h3">>
    /\ Len(invoked) = 3

\* C2: once a handler has returned stop-propagation, the occurrence invokes
\* nothing more: the handlers registered before it are never invoked, and the
\* ones invoked before it have returned.
C2_StopPropagation ==
    \A i \in 1..Len(invoked) :
        invoked[i].err = "stop" =>
            /\ Len(invoked) = i
            /\ DispatchReturned
            /\ \A j \in 1..(i - 1) : invoked[j].err \in {"nil", "other"}
            /\ \A k \in 1..(Len(sigHandlers) - i) :
                  sigHandlers[k] \notin {invoked[j].handler : j \in 1..Len(invoked)}

C2_Witness ==
    /\ sigHandlers = <<"h1", "h2", "h3">>
    /\ Len(invoked) = 2
    /\ invoked[2].handler = "h2"
    /\ invoked[2].err = "stop"

\* C3: when a handler returns at or after the deadline of the occurrence, the
\* handlers not yet invoked are skipped, and the invocations made so far stay
\* as they were.
C3_DeadlineSkipsTheRest ==
    \A i \in 1..Len(invoked) :
        (invoked[i].err \in {"nil", "other"} /\ invoked[i].returnedAt >= fastDeadline) =>
            /\ Len(invoked) = i
            /\ DispatchReturned
            /\ \A j \in 1..i : invoked[j].handler = sigHandlers[Len(sigHandlers) + 1 - j]
            /\ \A j \in 1..(i - 1) :
                  invoked[j].err \in {"nil", "other"} /\ invoked[j].returnedAt < fastDeadline

C3_Witness ==
    /\ sigHandlers = <<"h1", "h2", "h3">>
    /\ DispatchReturned
    /\ Len(invoked) = 2
    /\ invoked[1].err = "nil"
    /\ invoked[2].err = "nil"
    /\ invoked[2].returnedAt >= fastDeadline

----------------------------------------------------------------------------
(* The registry *)

\* s without the elements of the set gone, the others in their order
RECURSIVE Without(_, _)
Without(s, gone) ==
    IF s = <<>> THEN <<>>
    ELSE IF Head(s) \in gone THEN Without(Tail(s), gone)
    ELSE <<Head(s)>> \o Without(Tail(s), gone)

\* C4: whatever registry calls were made, no handler list holds a token twice.
C4_NoDuplicateToken ==
    \A sig \in DOMAIN _signals :
        \A i, j \in 1..Len(_signals[sig]) : i # j => _signals[sig][i] # _signals[sig][j]

\* C5: whatever registry calls were made, a signal without handlers is not
\* subscribed, unless it is one of the two termination signals.
C5_NoSubscriptionWithoutHandler ==
    \A sig \in AllSignals \ _defaultTermSignals :
        Len(MapGet(_signals, sig)) = 0 => disposition[sig] # "notify"

\* C6: UnbindHandlers(h1, ..., hn) with n >= 1 handlers, none nil, removes each
\* of them from every list, keeps the other handlers in their order and
\* deletes the signals left without a handler.
C6_UnbindHandlersRemovesAll ==
    [][\A hs \in HandlerLists :
          (Len(hs) >= 1 /\ nil \notin Elems(hs) /\ UnbindHandlers(hs)) =>
              /\ DOMAIN _signals' =
                    {sig \in DOMAIN _signals : Without(_signals[sig], Elems(hs)) # <<>>}
              /\ \A sig \in DOMAIN _signals' :
                    _signals'[sig] = Without(_signals[sig], Elems(hs))]_vars

\* the lists BindHandlerToSignals(handler, signals) has to change
BindTargets(handler, signals) ==
    IF handler = nil THEN {}
    ELSE {sig \in Elems(signals) \ {nil} : handler \notin Elems(MapGet(_signals, sig))}

\* C7: BindHandlerToSignals appends the token to the list of every listed
\* signal that lacks it and changes nothing else; with a nil token, no signal,
\* only nil signals or a token every listed signal already has, the registry
\* and the subscriptions stay as they are.
C7_BindOnlyAppends ==
    [][\A h \in HandlerArgs, sigs \in SignalLists :
          (lastCall'.op = "BindHandlerToSignals" /\ BindHandlerToSignals(h, sigs)) =>
              /\ DOMAIN _signals' = DOMAIN _signals \cup BindTargets(h, sigs)
              /\ \A sig \in DOMAIN _signals' :
                    _signals'[sig] = IF sig \in BindTargets(h, sigs)
                                     THEN Append(MapGet(_signals, sig), h)
                                     ELSE _signals[sig]
              /\ BindTargets(h, sigs) = {} => UNCHANGED <<_signals, disposition>>]_vars

C7_Witness ==
    /\ lastCall = [op |-> "BindHandlerToSignals", hit |-> FALSE]
    /\ "SIGUSR1" \in DOMAIN _signals
    /\ _signals["SIGUSR1"] = <<"h1", "h2">>

\* the handlers registered under some signal
Registered == UNION {Elems(_signals[sig]) : sig \in DOMAIN _signals}

\* C8: an unregistration whose input matches nothing changes nothing:
\* UnbindSignals() and UnbindHandlers() without arguments, UnbindHandlers of
\* nil or of handlers registered nowhere, UnbindHandlerFromSignals of a nil
\* handler or of signals that are nil or have no entry.
C8_UnmatchedUnbindChangesNothing ==
    [][/\ UnbindSignals(<<>>) => UNCHANGED <<_signals, disposition>>
       /\ \A hs \in HandlerLists :
             (/\ lastCall'.op = "UnbindHandlers"
              /\ Elems(hs) \cap Registered = {}
              /\ UnbindHandlers(hs))
                 => UNCHANGED <<_signals, disposition>>
       /\ \A h \in HandlerArgs, sigs \in SignalLists :
             (/\ lastCall'.op = "UnbindHandlerFromSignals"
              /\ h = nil \/ Elems(sigs) \cap DOMAIN _signals = {}
              /\ UnbindHandlerFromSignals(h, sigs))
                 => UNCHANGED <<_signals, disposition>>]_vars

C8_Witness ==
    /\ lastCall = [op |-> "UnbindHandlers", hit |-> FALSE]
    /\ DOMAIN _signals = {"SIGINT", "SIGUSR1"}
    /\ Registered = {"h1"}

----------------------------------------------------------------------------
(* Prolongation of the termination *)

Reasons == {"", "draining"}

\* C9: RequestSlowTermination returns SlowShutdownNeedAReason for an empty
\* reason in every termination state, SlowShutdownWithoutTermination for a
\* reason given before termination has started, SlowShutdownRequestedAlready
\* for a reason given after a prolongation was granted; the three differ, and
\* the call is possible in every state of the running process.
C9_SlowTerminationErrors ==
    [][\A reason \in Reasons :
          /\ exitStatus = "running" => ENABLED RequestSlowTermination(reason)
          /\ RequestSlowTermination(reason) =>
                /\ reason = "" => rstResult' = "SlowShutdownNeedAReason"
                /\ (reason # "" /\ ~_termination.Started)
                      => rstResult' = "SlowShutdownWithoutTermination"
                /\ (reason # "" /\ _termination.Started /\ _termination.Prolonged)
                      => rstResult' = "SlowShutdownRequestedAlready"
                /\ (reason # "" /\ _termination.Started /\ ~_termination.Prolonged)
                      => rstResult' = "nil"]_vars

C9_Witness ==
    /\ rstResult = "SlowShutdownRequestedAlready"
    /\ _termination.Started
    /\ _termination.Prolonged

\* C10: a request with a reason, made after the default strategy has started
\* the termination and before any prolongation, is granted: it sets Prolonged
\* and moves the deadline GetTerminationDeadline returns by exactly
\* prolongedShutdownTimeout, to StartedAt + gracefullShutdownTimeout +
\* prolongedShutdownTimeout.
C10_FirstRequestProlongs ==
    [][(_termination.Started /\ ~_termination.Prolonged
        /\ RequestSlowTermination("draining")) =>
            /\ rstResult' = "nil"
            /\ _termination'.Prolonged
            /\ GetTerminationDeadline' = GetTerminationDeadline + prolongedShutdownTimeout
            /\ GetTerminationDeadline' = _termination.StartedAt + gracefullShutdownTimeout
                                            + prolongedShutdownTimeout
            /\ _termination'.StartedAt = _termination.StartedAt]_vars

C10_Witness ==
    /\ rstResult = "nil"
    /\ _termination.Started
    /\ _termination.Prolonged
    /\ now > _termination.StartedAt
    /\ GetTerminationDeadline = _termination.StartedAt + gracefullShutdownTimeout
                                   + prolongedShutdownTimeout

----------------------------------------------------------------------------
(* The termination state *)

\* C11: a RequestSlowTermination call that returns an error leaves the
\* termination state and the deadline GetTerminationDeadline returns as they
\* were; before any trigger the state stays unstarted and the deadline zero.
C11_FailedRequestChangesNothing ==
    [][\A reason \in Reasons :
          (RequestSlowTermination(reason) /\ rstResult' # "nil") =>
              /\ _termination' = _termination
              /\ GetTerminationDeadline' = GetTerminationDeadline
              /\ ~_termination.Started =>
                    ~_termination'.Started /\ GetTerminationDeadline' = ZeroTime]_vars

C11_Witness ==
    /\ rstResult = "SlowShutdownWithoutTermination"
    /\ ~_termination.Started
    /\ GetTerminationDeadline = ZeroTime

\* C12: GetTerminationDeadline returns the zero time as long as the
\* termination has not started; once it has, it returns a deadline that is not
\* the zero time: the start plus the grace period, plus the prolongation if
\* one was granted.
C12_DeadlineRead ==
    /\ ~_termination.Started => GetTerminationDeadline = ZeroTime
    /\ _termination.Started =>
          /\ GetTerminationDeadline # ZeroTime
          /\ GetTerminationDeadline =
                _termination.StartedAt + gracefullShutdownTimeout
                   + (IF _termination.Prolonged THEN prolongedShutdownTimeout ELSE 0)

C12_Witness ==
    /\ _termination.Started
    /\ _termination.Prolonged
    /\ tpc["app"] = "wait2"
    /\ GetTerminationDeadline = _termination.StartedAt + gracefullShutdownTimeout
                                   + prolongedShutdownTimeout

\* C13: in every step Prolonged, once true, stays true, the deadline does not
\* move backward, and the deadline changes only into a started state.
C13_TerminationStateMonotone ==
    [][/\ _termination.Prolonged => _termination'.Prolonged
       /\ _termination'.Deadline >= _termination.Deadline
       /\ _termination'.Deadline # _termination.Deadline => _termination'.Started]_vars

\* sig is handed to checkTermSignals, which finds it among the termination
\* signals
TriggerBySignal == CheckTermSignals /\ isTerminationSignal(curSig)

\* C14: a trigger, by a termination signal or by Terminate, that comes when
\* the termination has started does not run the strategy again and leaves the
\* termination state as it is.
C14_TriggerOnlyFromIdle ==
    [][(_termination.Started /\ (Terminate \/ TriggerBySignal)) =>
          UNCHANGED <<_termination, tpc, waitCtx>>]_vars

----------------------------------------------------------------------------
(* The forced exit *)

\* C15: once the default strategy has been triggered, the process eventually
\* exits with status 100, whatever the application does meanwhile.
C15_EventuallyExit100 ==
    _termination.Started ~> exitStatus = "exit100"

\* C16: once the default strategy has started the termination, the process
\* is running or has ended with exit code 100; it never ends another way.
C16_OnlyExit100 ==
    _termination.Started => exitStatus \in {"running", "exit100"}

\* C17: when a prolongation was granted, the process does not exit before the
\* extended deadline, the one GetTerminationDeadline returns after the call.
C17_NoExitBeforeExtendedDeadline ==
    (exitStatus = "exit100" /\ _termination.Prolonged /\ rstResult = "nil")
        => now >= GetTerminationDeadline

----------------------------------------------------------------------------
(* The global context and the finalizers *)

\* C18: the cancel function makes the context done; a context that is done
\* stays done; a call of contextStoper on a done context changes nothing, and
\* the strategy's own cancel on a done context leaves the context and the
\* finalizers as they are.
C18_CancelIdempotent ==
    [][/\ ctxDone => ctxDone'
       /\ contextStoper => ctxDone'
       /\ (ctxDone /\ contextStoper) =>
             UNCHANGED <<regVars, watchVars, termVars, now, _finalizers, fpc, fidx, finRan>>
       /\ \A p \in Procs :
             (ctxDone /\ TermCancel(p)) =>
                 UNCHANGED <<ctxDone, _finalizers, fpc, fidx, finRan>>]_vars

C18_Witness ==
    /\ ctxDone
    /\ cancelCalls >= 2
    /\ tpc["app"] = "wait1"
    /\ fpc = "done"

\* the finalizers run so far are the last ones of the list, from the one the
\* drain began with downward, each at its index and each but the last returned
DrainInOrder ==
    /\ \A i \in 1..Len(finRan) :
          /\ finRan[i].idx = finRan[1].idx + 1 - i
          /\ finRan[i].idx \in 1..Len(_finalizers)
          /\ finRan[i].fn = _finalizers[finRan[i].idx]
    /\ \A i \in 1..(Len(finRan) - 1) : finRan[i].returned
    /\ fpc = "waiting" => finRan = <<>>
    /\ fpc = "running" => finRan # <<>> /\ ~finRan[Len(finRan)].returned
    /\ fpc = "done" =>
          \/ finRan = <<>>
          \/ finRan[Len(finRan)].idx = 1 /\ finRan[Len(finRan)].returned

\* the drain begins with the last finalizer of the list as it is then, which
\* holds every finalizer registered before the cancellation
DrainTakesAll ==
    FinalizersStart =>
        IF Len(_finalizers) = 0 THEN fpc' = "done" /\ finRan' = <<>>
        ELSE finRan'[1].idx = Len(_finalizers)

C20_NoFinalizerBeforeCancel ==
    (fpc # "waiting" \/ finRan # <<>>) => ctxDone

C20_Witness ==
    /\ ctxDone
    /\ fpc = "running"
    /\ Len(finRan) = 1
    /\ Len(_finalizers) = 2
    /\ tpc["app"] = "wait1"

----------------------------------------------------------------------------
(* The strategy in force *)

\* C21: with the strategy disabled, a termination signal that arrives ends
\* the process by its default disposition, and the watcher that dispatches a
\* termination signal neither cancels the context nor starts the termination
\* state.
C21_DisabledFallsBackToDefault ==
    [][/\ \A sig \in _defaultTermSignals :
             (_defaultSigTermHandler = "nil" /\ arrived' # arrived /\ SignalArrives(sig))
                 => exitStatus' = "killed"
       /\ (_defaultSigTermHandler = "nil" /\ wpc = "checkterm" /\ CheckTermSignals)
             => UNCHANGED <<ctxDone, _termination>>]_vars

\* C22: EnableDefaultSigTermHandler, SetSigTermHandler and
\* DisableSigTermHandler leave a termination under way as it is: its state,
\* its goroutines, its deadlines, the context and the calls a caller-supplied
\* strategy has received; and no step takes a goroutine out of the default
\* strategy once it has entered it.
C22_ReconfigurationLeavesTerminationAlone ==
    [][/\ (EnableDefaultSigTermHandler \/ SetSigTermHandler \/ DisableSigTermHandler)
             => UNCHANGED <<_termination, tpc, waitCtx, ctxDone, exitStatus, customCalls>>
       /\ \A p \in Procs : tpc[p] # "idle" => tpc'[p] # "idle"]_vars

\* the default strategy, triggered and then disabled, has run to its exit
C22_Witness ==
    /\ exitStatus = "exit100"
    /\ _defaultSigTermHandler = "nil"
    /\ customCalls = <<>>

----------------------------------------------------------------------------
(* Binding and unbinding one handler of a user signal *)

\* the registry and the subscriptions without the user signal
WithoutUserSignal ==
    [reg |-> MapDelete(_signals, UserSignal),
     disp |-> [disposition EXCEPT ![UserSignal] = "default"]]

\* C23: when the registry and the subscriptions are what binding a handler to
\* the user signal made of a state where the signal had no handler and no
\* subscription, unbinding that handler (from the signal, or from every
\* signal) gives that state back; and an occurrence of the signal dispatched
\* while the signal has no handler invokes none.
C23_BindThenUnbindRestores ==
    [][/\ \A h \in BoundHandlers :
             (/\ lastCall'.op \in {"UnbindHandlerFromSignals", "UnbindHandlers"}
              /\ [reg |-> _signals, disp |-> disposition]
                     = BindLoop(WithoutUserSignal.reg, WithoutUserSignal.disp,
                                h, <<UserSignal>>)
              /\ (UnbindHandlerFromSignals(h, <<UserSignal>>) \/ UnbindHandlers(<<h>>)))
             => /\ _signals' = WithoutUserSignal.reg
                /\ disposition' = WithoutUserSignal.disp
       /\ (/\ wpc = "select"
           /\ WatcherReceive
           /\ curSig' = UserSignal
           /\ UserSignal \notin DOMAIN _signals)
             => invoked' = <<>> /\ wpc' = "checkterm"]_vars

\* a handler was bound to the user signal and unbound again, and an occurrence
\* raised in between has been dispatched to no handler
C23_Witness ==
    /\ lastCall = [op |-> "UnbindHandlerFromSignals", hit |-> TRUE]
    /\ UserSignal \notin DOMAIN _signals
    /\ disposition[UserSignal] = "default"
    /\ curSig = UserSignal
    /\ invoked = <<>>
    /\ wpc = "checkterm"

----------------------------------------------------------------------------
(* Handlers and the budget of an occurrence *)

\* C24: the deadline of an occurrence interrupts no handler: an invocation
\* that has not returned is the one the watcher is waiting for, it can still
\* return however late it is, and an invocation that returned at or after the
\* deadline is recorded with its result and is the last of its occurrence.
C24_BudgetNotPreemptive ==
    /\ \A i \in 1..Len(invoked) :
          invoked[i].err = "running" => i = Len(invoked) /\ wpc = "running"
    /\ (exitStatus = "running" /\ wpc = "running") =>
          /\ invoked # <<>> /\ invoked[Len(invoked)].err = "running"
          /\ ENABLED HandlerReturn("nil")
    /\ \A i \in 1..Len(invoked) :
          (invoked[i].err # "running" /\ invoked[i].returnedAt >= fastDeadline) =>
              /\ invoked[i].handler = sigHandlers[Len(sigHandlers) + 1 - i]
              /\ invoked[i].err = "stop" \/ invoked[i].timeIsUp
              /\ Len(invoked) = i

\* the last registered of two handlers was still running at the deadline,
\* has returned an error after it, and the other handler was skipped
C24_Witness ==
    /\ Len(sigHandlers) = 2
    /\ Len(invoked) = 1
    /\ invoked[1].err = "other"
    /\ invoked[1].returnedAt >= fastDeadline
    /\ wpc = "checkterm"

\* C25: when a handler returns an error that is not stop-propagation, within
\* the deadline and with a handler registered before it, that handler is
\* invoked next; and the return changes nothing of the registry, the
\* subscriptions, the termination state, the context or the result any caller
\* has received.
C25_OtherErrorDoesNotHalt ==
    [][(wpc = "running" /\ HandlerReturn("other")) =>
          /\ (~FastCtxDone /\ idx > 1) =>
                /\ wpc' = "running"
                /\ Len(invoked') = Len(invoked) + 1
                /\ invoked'[Len(invoked')].handler = sigHandlers[idx - 1]
                /\ invoked'[Len(invoked')].err = "running"
          /\ invoked'[Len(invoked)].err = "other"
          /\ UNCHANGED <<_signals, disposition, _termination, tpc, waitCtx, ctxDone,
                         exitStatus, customCalls, rstResult, _signalChan>>]_vars

\* the last registered handler returned an error and the one registered
\* before it is running
C25_Witness ==
    /\ Len(sigHandlers) >= 2
    /\ Len(invoked) = 2
    /\ invoked[1].err = "other"
    /\ ~invoked[1].timeIsUp
    /\ invoked[2].handler = sigHandlers[Len(sigHandlers) - 1]
    /\ invoked[2].err = "running"

----------------------------------------------------------------------------
(* The trigger and the occurrence that invokes it *)

\* the watcher has called _terminate for a termination signal: it is inside
\* the default strategy, or it has come back and called signal.Ignore()
SignalTriggerInvoked ==
    \/ tpc["watcher"] # "idle"
    \/ \A sig \in AllSignals : disposition[sig] = "ignore"

\* C26: once the watcher has invoked the trigger for a termination signal, no
\* handler runs for an occurrence of a signal that is not a termination
\* signal, whichever strategy is configured.
C26_NoUserHandlerAfterTrigger ==
    SignalTriggerInvoked => ~(wpc = "running" /\ ~isTerminationSignal(curSig))

\* the occurrence being dispatched ended with a stop-propagation
StoppedOccurrence ==
    /\ invoked # <<>>
    /\ invoked[Len(invoked)].err = "stop"

\* C27: an occurrence of a termination signal whose handler returned
\* stop-propagation still reaches the trigger: in a live process the watcher is
\* about to start the termination, or has started it.
C27_StopDoesNotStopTermination ==
    (isTerminationSignal(curSig) /\ StoppedOccurrence /\ exitStatus = "running") =>
        \/ /\ wpc = "checkterm"
           /\ ENABLED (/\ CheckTermSignals
                       /\ _termination'.Started
                       /\ tpc'["watcher"] = "cancel")
        \/ /\ wpc = "terminating"
           /\ _termination.Started
           /\ tpc["watcher"] # "idle"

\* the last registered handler of a termination signal stopped the
\* propagation, the handlers before it were skipped, the termination started
C27_Witness ==
    /\ isTerminationSignal(curSig)
    /\ StoppedOccurrence
    /\ Len(invoked) < Len(sigHandlers)
    /\ wpc = "terminating"
    /\ _termination.Started

\* C28: while a handler of an occurrence runs, the watcher has not entered
\* the strategy, the termination state is unstarted and the context is not
\* cancelled; the watcher enters the strategy only from checkTermSignals,
\* after the dispatch, when every invocation of the occurrence has returned.
C28_TriggerAfterDispatch ==
    [][/\ wpc' = "running" =>
             /\ ~_termination'.Started
             /\ ~ctxDone'
             /\ tpc'["watcher"] = "idle"
       /\ (tpc["watcher"] = "idle" /\ tpc'["watcher"] # "idle") =>
             /\ wpc = "checkterm"
             /\ isTerminationSignal(curSig)
             /\ \A i \in 1..Len(invoked) : invoked[i].err # "running"
             /\ ~ctxDone]_vars

\* two handlers of a termination signal have run and returned, and the
\* termination has started after them
C28_Witness ==
    /\ isTerminationSignal(curSig)
    /\ Len(invoked) = 2
    /\ \A i \in 1..2 : invoked[i].err = "nil"
    /\ wpc = "terminating"
    /\ _termination.Started
    /\ ctxDone

\* C29: the default strategy writes the termination state before it cancels
\* the context: a goroutine about to cancel, and every state where the context
\* is cancelled, finds the termination started, with a deadline that is the
\* start plus the grace period (plus the prolongation, once granted), a
\* GetTerminationDeadline that is not the zero time and a
\* RequestSlowTermination that does not fail for want of a termination.
C29_StateSetBeforeCancel ==
    (ctxDone \/ \E p \in Procs : tpc[p] = "cancel") =>
        /\ _termination.Started
        /\ _termination.StartedAt <= now
        /\ _termination.Deadline = _termination.StartedAt + gracefullShutdownTimeout
                + (IF _termination.Prolonged THEN prolongedShutdownTimeout ELSE 0)
        /\ GetTerminationDeadline # ZeroTime
        /\ SlowTerminationError("draining", _termination)
              # "SlowShutdownWithoutTermination"

\* Terminate has started the default strategy and the context is cancelled,
\* within the grace period
C29_Witness ==
    /\ ctxDone
    /\ tpc["app"] = "wait1"
    /\ ~_termination.Prolonged
    /\ GetTerminationDeadline = _termination.StartedAt + gracefullShutdownTimeout
    /\ now < GetTerminationDeadline

----------------------------------------------------------------------------
(* One handler at a time *)

\* the invocations of log that have not returned
Running(log) == {i \in 1..Len(log) : log[i].err = "running"}

\* C30: at most one handler is running at any time: a handler is invoked only
\* when every earlier invocation of the occurrence has returned, and the
\* watcher takes the next occurrence from the channel only when no handler of
\* the occurrence before is running.
C30_HandlersNeverConcurrent ==
    [][/\ Cardinality(Running(invoked')) <= 1
       /\ Len(invoked') > Len(invoked) =>
             \A i \in 1..Len(invoked) : invoked'[i].err # "running"
       /\ Len(_signalChan') < Len(_signalChan) =>
             /\ wpc = "select"
             /\ Running(invoked) = {}]_vars

\* two occurrences were raised, the first has been dispatched and the second
\* handler of the second occurrence is running
C30_Witness ==
    /\ exitStatus = "running"
    /\ arrived = 2
    /\ _signalChan = <<>>
    /\ wpc = "running"
    /\ Len(invoked) = 2
    /\ Running(invoked) = {2}

----------------------------------------------------------------------------
(* Registry calls while an occurrence is dispatched *)

\* C31: while the handlers of an occurrence run, no registry call changes the
\* registry or the subscriptions, and every invocation of the occurrence is
\* taken, last first, from the list the signal had when the dispatch began,
\* which is still the list the registry holds.
C31_DispatchReadsStableList ==
    [][/\ wpc = "running" => _signals' = _signals /\ disposition' = disposition
       /\ wpc' = "running" =>
             /\ sigHandlers' = MapGet(_signals', curSig')
             /\ \A i \in 1..Len(invoked') :
                   invoked'[i].handler = sigHandlers'[Len(sigHandlers') + 1 - i]
       /\ (wpc = "running" /\ wpc' \in {"running", "checkterm"}) =>
             sigHandlers' = sigHandlers]_vars

\* both handlers of the user signal were invoked for an occurrence, and the
\* signal was cleared once the dispatch had returned
C31_Witness ==
    /\ curSig = UserSignal
    /\ Len(sigHandlers) = 2
    /\ Len(invoked) = 2
    /\ wpc = "checkterm"
    /\ lastCall = [op |-> "UnbindSignals", hit |-> TRUE]
    /\ UserSignal \notin DOMAIN _signals

----------------------------------------------------------------------------
(* The finalizer list after the cancellation *)

\* the list the drain runs over: the whole list until _runFinalizers has read
\* its length, and from then on the part up to the first index it called
DrainedList ==
    IF fpc = "waiting" THEN _finalizers
    ELSE IF finRan = <<>> THEN <<>>
    ELSE SubSeq(_finalizers, 1, finRan[1].idx)

\* C32: once the context is cancelled, no step changes the list that is
\* drained: the finalizers that run are the ones registered before the
\* cancellation.
C32_FinalizersFrozenAtCancel ==
    [][ctxDone => DrainedList' = DrainedList]_vars

----------------------------------------------------------------------------
(* The registry and the subscriptions after any registry calls *)

\* C33: the registry holds no signal with an empty handler list: a call that
\* removes the last handler of a signal removes the signal's entry.
C33_NoEmptyEntry ==
    \A sig \in DOMAIN _signals : Len(_signals[sig]) > 0

\* the last handlers were removed by UnbindHandlers and the registry is empty
C33_Witness ==
    /\ lastCall = [op |-> "UnbindHandlers", hit |-> TRUE]
    /\ DOMAIN _signals = {}

\* C34: once the watcher is started, the termination signals stay subscribed
\* to the channel through every registry call, whether or not they have
\* handlers.
C34_TerminationSignalsStaySubscribed ==
    wpc # "off" => \A sig \in _defaultTermSignals : disposition[sig] = "notify"

\* with the watcher started, a call has removed the last handler of every
\* signal it named, a termination signal or not
C34_Witness ==
    /\ wpc = "select"
    /\ lastCall = [op |-> "UnbindHandlerFromSignals", hit |-> TRUE]
    /\ DOMAIN _signals = {}
    /\ \A sig \in AllSignals : disposition[sig] = "notify" <=> isTerminationSignal(sig)

\* C35: while the watcher runs, every signal that is not a termination signal
\* and has a handler is subscribed to the channel.
C35_HandledSignalsSubscribed ==
    wpc = "select" =>
        \A sig \in DOMAIN _signals :
            ~isTerminationSignal(sig) => disposition[sig] = "notify"

\* with the watcher running, a signal has a handler again after
\* UnbindAllSignals and a new bind
C35_Witness ==
    /\ wpc = "select"
    /\ lastCall = [op |-> "BindHandlerToSignals", hit |-> TRUE]
    /\ \E sig \in DOMAIN _signals :
          ~isTerminationSignal(sig) /\ Len(_signals[sig]) = 2

----------------------------------------------------------------------------
(* The deadline of a termination *)

\* C36: in a started termination the deadline is the start plus the grace
\* period, plus one prolongation once prolonged; and it lies at most one
\* prolongation beyond the end of the grace period a goroutine of the strategy
\* is waiting for.
C36_DeadlineWithinOneProlongation ==
    _termination.Started =>
        /\ _termination.Deadline = _termination.StartedAt + gracefullShutdownTimeout
                + (IF _termination.Prolonged THEN prolongedShutdownTimeout ELSE 0)
        /\ \A p \in Procs :
              tpc[p] \in {"cancel", "wait1"} =>
                  _termination.Deadline <= waitCtx[p] + prolongedShutdownTimeout

----------------------------------------------------------------------------
(* A handler that calls the registry *)

\* C37: a handler that has called a function of the registry from inside its
\* invocation is not stuck in it: as long as the process lives, an invoked
\* handler can return, and with it the dispatch of the occurrence go on.
C37_HandlerRegistryCallReturns ==
    (exitStatus = "running" /\ invoked # <<>> /\ invoked[Len(invoked)].err = "running")
        => ENABLED (\E err \in HandlerErrors : HandlerReturn(err))

----------------------------------------------------------------------------
(* The first invocation of an occurrence *)

\* C38: the dispatch of a signal that has handlers invokes the last registered
\* one at once, whatever the clock and the context say; and once the context
\* is cancelled, the return of a handler ends the dispatch, so that an
\* occurrence dispatched after the cancellation invokes that one handler only.
C38_LastRegisteredAlwaysInvoked ==
    [][/\ (/\ wpc = "select"
           /\ wpc' \in {"running", "checkterm"}
           /\ MapGet(_signals, curSig') # <<>>) =>
             /\ wpc' = "running"
             /\ invoked' = <<Invocation(_signals[curSig'][Len(_signals[curSig'])])>>
       /\ (wpc = "running" /\ ctxDone /\ invoked' # invoked) =>
             /\ wpc' = "checkterm"
             /\ Len(invoked') = Len(invoked)]_vars

\* with the context cancelled, the last of three handlers has returned within
\* the deadline and the dispatch is over
C38_Witness ==
    /\ ctxDone
    /\ ~_termination.Started
    /\ Len(sigHandlers) = 3
    /\ Len(invoked) = 1
    /\ invoked[1].handler = sigHandlers[3]
    /\ invoked[1].err = "nil"
    /\ invoked[1].returnedAt < fastDeadline
    /\ wpc = "checkterm"

----------------------------------------------------------------------------
(* The channel after the watcher has closed it *)

\* C39: once the watcher has closed the channel, no signal is subscribed to
\* it.
C39_NoSubscriptionToClosedChannel ==
    chanClosed => \A sig \in AllSignals : disposition[sig] # "notify"

----------------------------------------------------------------------------
(* A trigger under a caller-supplied strategy *)

\* C40: a trigger under a caller-supplied strategy hands the strategy the
\* signal, or nil for a call of Terminate, and does nothing else to the
\* termination: the context, the exit status, the termination state and the
\* goroutines of the default strategy stay as they are, and where no
\* termination had started GetTerminationDeadline is still the zero time and
\* RequestSlowTermination with a reason still fails for want of a termination.
C40_CustomTriggerOnlyCallsStrategy ==
    [][customCalls' # customCalls =>
          /\ _defaultSigTermHandler = "custom"
          /\ \/ customCalls' = Append(customCalls, nil)
             \/ isTerminationSignal(curSig) /\ customCalls' = Append(customCalls, curSig)
          /\ UNCHANGED <<ctxDone, exitStatus, _termination, tpc, waitCtx>>
          /\ ~_termination.Started =>
                /\ GetTerminationDeadline' = ZeroTime
                /\ SlowTerminationError("draining", _termination')
                      = "SlowShutdownWithoutTermination"]_vars

\* a caller-supplied strategy has been called for a signal and for a call of
\* Terminate, and no termination has started
C40_Witness ==
    /\ _defaultSigTermHandler = "custom"
    /\ Elems(customCalls) = {nil, "SIGINT"}
    /\ ~_termination.Started
    /\ ~ctxDone
    /\ exitStatus = "running"
    /\ GetTerminationDeadline = ZeroTime

====
